---- MODULE Spec2Model ----
(***************************************************************************)
(* The private blockchain of project1-private-blockchain/src/blockchain.js *)
(* as a state machine.  The Blockchain object holds `chain` and `height`;  *)
(* every method is an async function.  A JavaScript job runs to its first  *)
(* suspension without interleaving, so the synchronous part of a call is   *)
(* one action and the delivery of its promise is a second one (Settle).    *)
(* Two callers may have calls in flight at the same time.                  *)
(*                                                                         *)
(* block.js (the Block class: constructor, validate, getBData) is not part *)
(* of the sources; NewBlock, BlockValidate and GetBData follow the         *)
(* description of the Block in the specification.                          *)
(***************************************************************************)
EXTENDS Integers, Sequences, FiniteSets, TLC

\* ------------------------------------------------------------------ bounds
MaxChain == 3          \* blocks in the chain, genesis included
MaxTicks == 1          \* advances of the wall clock
TickMs == 301000       \* milliseconds per advance of the wall clock
StartMs == 1000000     \* wall clock (ms) when the Blockchain is constructed
MaxTamper == 2         \* in-place mutations of stored blocks

\* ------------------------------------------------------- program constants
FreshnessWindow == 300 \* seconds ("less than 5 minutes")

Procs == {"p1", "p2"}
Addrs == {"addrA", "addrB"}
Stars == {"star1", "star2"}
Circular == "circular"           \* a star JSON.stringify throws on
Null == <<>>                     \* null / undefined
GenesisData == [data |-> "Genesis Block"]
NoteData == [data |-> "note"]    \* payload of a block handed to _addBlock directly

ErrAddBlock == "Error adding block!"
ErrVerify == "Error in verifying submitted message!"
ErrRegister == "Error registering new Block!"

VARIABLES
  chain,     \* this.chain: the sequence of blocks
  height,    \* this.height
  nowMs,     \* new Date().getTime()
  pc,        \* per caller: "idle" or "pending" (a promise not yet delivered)
  call,      \* per caller: the call in flight and its arguments
  ret,       \* per caller: what the promise of the call in flight settles with
  tampered   \* blocks mutated in place from outside the class: <<kind, index>>

vars == <<chain, height, nowMs, pc, call, ret, tampered>>

\* ------------------------------------------------------------ time, hashes
\* new Date().getTime().toString().slice(0, -3): the decimal string without
\* its last three digits, i.e. whole seconds (for ms >= 1000); the string is
\* modelled by the number it denotes.
SliceSeconds(ms) == ms \div 1000

\* SHA256(JSON.stringify(block)).toString(): a collision-free digest of every
\* field JSON.stringify sees, the hash field (null while sealing) included.
SHA256JSON(block) ==
  <<"sha256", block.hash, block.height, block.body, block.time,
    block.previousBlockHash>>

\* Payload encoding of the Block constructor: hex of JSON.stringify(data).
Encode(data) == <<"hex", data>>
Decode(body) == body[2]

\* new BlockClass.Block(data): position, time and linkage unset until the
\* ledger assigns them.
NewBlock(data) ==
  [hash |-> Null, height |-> 0, body |-> Encode(data), time |-> 0,
   previousBlockHash |-> Null]

\* JSON.stringify(data) in the Block constructor returns (it throws on a
\* circular or BigInt-holding payload).
Serializable(data) == data.star # Circular

\* Block.validate(): recompute the digest over the current fields other than
\* hash and compare with the stored hash.
BlockValidate(block) == block.hash = SHA256JSON([block EXCEPT !.hash = Null])

\* Block.getBData(): the decoded payload, or "no data" for the genesis block.
GetBData(block) ==
  IF Decode(block.body) = GenesisData THEN Null ELSE Decode(block.body)

\* --------------------------------------------------------------- _addBlock
\* Mutant of BlockHeight: positions counted from 1.
BlockHeightFromOne(c) == Len(c) + 1

\* line 68: block.height = self.chain.length
BlockHeight(c) == Len(c)

\* line 69: self.height = self.chain.length, assigned before the block is hashed
SelfHeight(c) == Len(c)

\* Mutant of PreviousBlockHash: the link is never assigned.
PreviousBlockHashUnlinked(c, block) == block.previousBlockHash

\* Mutant of PreviousBlockHash: the link is read from the head of the chain,
\* as an append working on a stale view of the tail would.
PreviousBlockHashStale(c, block) ==
  IF Len(c) > 0 THEN c[1].hash ELSE block.previousBlockHash

\* lines 71-73: previousBlockHash is the hash of the current tail, when there is one
PreviousBlockHash(c, block) ==
  IF Len(c) > 0 THEN c[Len(c)].hash ELSE block.previousBlockHash

\* Mutant of Seal: the block is hashed before its link is assigned.
SealHashBeforeLink(c, block, ms) ==
  LET b1 == [block EXCEPT !.height = BlockHeight(c)]
      b2 == [b1 EXCEPT !.time = SliceSeconds(ms)]
      b3 == [b2 EXCEPT !.hash = SHA256JSON(b2)]
  IN  [b3 EXCEPT !.previousBlockHash = PreviousBlockHash(c, b2)]

\* lines 68-76: the block as it is when pushed
Seal(c, block, ms) ==
  LET b1 == [block EXCEPT !.height = BlockHeight(c)]
      b2 == [b1 EXCEPT !.time = SliceSeconds(ms)]
      b3 == [b2 EXCEPT !.previousBlockHash = PreviousBlockHash(c, b2)]
  IN  [b3 EXCEPT !.hash = SHA256JSON(b3)]

\* An _addBlock that stores the new block over the tail instead of pushing.
AddBlockOverTail(c, block, ms, serializable) ==
  IF serializable
  THEN [chain |-> IF Len(c) > 1
                  THEN [c EXCEPT ![Len(c)] = Seal(c, block, ms)]
                  ELSE Append(c, Seal(c, block, ms)),
        height |-> SelfHeight(c),
        ok |-> TRUE, value |-> Seal(c, block, ms), error |-> ""]
  ELSE [chain |-> c, height |-> SelfHeight(c),
        ok |-> FALSE, value |-> Null, error |-> ErrAddBlock]

\* lines 64-87: the whole of _addBlock.  `serializable` is whether
\* JSON.stringify(block) returns; when it throws, line 69 has already run.
AddBlock(c, block, ms, serializable) ==
  IF serializable
  THEN [chain |-> Append(c, Seal(c, block, ms)), height |-> SelfHeight(c),
        ok |-> TRUE, value |-> Seal(c, block, ms), error |-> ""]
  ELSE [chain |-> c, height |-> SelfHeight(c),
        ok |-> FALSE, value |-> Null, error |-> ErrAddBlock]

\* ------------------------------------------------- ownership verification
\* lines 97-104: "<address>:<seconds>:starRegistry"
Challenge(address, ms) == <<address, SliceSeconds(ms), "starRegistry">>

\* parseInt(message.split(':')[1])
MessageTime(message) == message[2]

\* A signature names its signer and the message signed.
Sign(signer, message) == [signer |-> signer, message |-> message]

\* bitcoinMessage.verify(message, address, signature)
Verify(message, address, signature) ==
  signature.signer = address /\ signature.message = message

\* Seconds elapsed since the challenge was issued exceed the freshness window.
Expired(message, ms) ==
  SliceSeconds(ms) - MessageTime(message) > FreshnessWindow

Clock == {StartMs + k * TickMs : k \in 0..MaxTicks}

Idle == [op |-> "none"]
NoRet == [ok |-> TRUE, value |-> Null, error |-> ""]

\* ------------------------------------------------------------------- Init
\* A constructor that leaves out the call of initializeChain().
InitWithoutGenesis ==
  /\ nowMs = StartMs
  /\ chain = <<>> /\ height = -1
  /\ pc = [p \in Procs |-> "idle"]
  /\ call = [p \in Procs |-> Idle]
  /\ ret = [p \in Procs |-> NoRet]
  /\ tampered = {}

\* constructor, lines 24-28: chain = [], height = -1, then initializeChain()
\* runs _addBlock(genesis) synchronously.
Init ==
  /\ nowMs = StartMs
  /\ LET r == AddBlock(<<>>, NewBlock(GenesisData), StartMs, TRUE)
     IN  chain = r.chain /\ height = r.height
  /\ pc = [p \in Procs |-> "idle"]
  /\ call = [p \in Procs |-> Idle]
  /\ ret = [p \in Procs |-> NoRet]
  /\ tampered = {}

\* ---------------------------------------------------------------- actions
\* submitStar(address, message, signature, star), lines 123-139, up to its
\* await: verify, build the block, _addBlock; any throw becomes ErrRegister.
SubmitStar(p, address, message, signature, star) ==
  /\ pc[p] = "idle"
  /\ Len(chain) < MaxChain
  /\ pc' = [pc EXCEPT ![p] = "pending"]
  /\ call' = [call EXCEPT ![p] =
       [op |-> "submitStar", address |-> address, message |-> message,
        signature |-> signature, star |-> star]]
  /\ IF /\ Verify(message, address, signature)
        /\ Serializable([owner |-> address, star |-> star])
     THEN LET r == AddBlock(chain, NewBlock([owner |-> address, star |-> star]),
                            nowMs, TRUE)
          IN  /\ chain' = r.chain
              /\ height' = r.height
              /\ ret' = [ret EXCEPT ![p] =
                   [ok |-> TRUE, value |-> r.value, error |-> ""]]
     ELSE /\ UNCHANGED <<chain, height>>
          /\ ret' = [ret EXCEPT ![p] =
               [ok |-> FALSE, value |-> Null, error |-> ErrRegister]]
  /\ UNCHANGED <<nowMs, tampered>>

\* _addBlock(block) called on its own with a block built from NoteData.
AddBlockCall(p, serializable) ==
  /\ pc[p] = "idle"
  /\ Len(chain) < MaxChain
  /\ pc' = [pc EXCEPT ![p] = "pending"]
  /\ call' = [call EXCEPT ![p] =
       [op |-> "_addBlock", serializable |-> serializable]]
  /\ LET r == AddBlock(chain, NewBlock(NoteData), nowMs, serializable)
     IN  /\ chain' = r.chain
         /\ height' = r.height
         /\ ret' = [ret EXCEPT ![p] =
              [ok |-> r.ok, value |-> r.value, error |-> r.error]]
  /\ UNCHANGED <<nowMs, tampered>>

\* An initializeChain() without the `height === -1` test of line 36.
InitializeChainUnguarded(p) ==
  /\ pc[p] = "idle"
  /\ Len(chain) < MaxChain
  /\ pc' = [pc EXCEPT ![p] = "pending"]
  /\ call' = [call EXCEPT ![p] = [op |-> "initializeChain"]]
  /\ LET r == AddBlock(chain, NewBlock(GenesisData), nowMs, TRUE)
     IN  chain' = r.chain /\ height' = r.height
  /\ ret' = [ret EXCEPT ![p] = NoRet]
  /\ UNCHANGED <<nowMs, tampered>>

\* initializeChain(), lines 35-41: the genesis block is added only while
\* height is -1; an error of _addBlock is logged, not rethrown.
InitializeChain(p) ==
  /\ pc[p] = "idle"
  /\ pc' = [pc EXCEPT ![p] = "pending"]
  /\ call' = [call EXCEPT ![p] = [op |-> "initializeChain"]]
  /\ IF height = -1
     THEN LET r == AddBlock(chain, NewBlock(GenesisData), nowMs, TRUE)
          IN  chain' = r.chain /\ height' = r.height
     ELSE UNCHANGED <<chain, height>>
  /\ ret' = [ret EXCEPT ![p] = NoRet]
  /\ UNCHANGED <<nowMs, tampered>>

\* lines 224-230: every block's validate() result is pushed onto errorLog by
\* its own callback, so errorLog is in the order the callbacks complete;
\* `order` maps the place in errorLog to the index of the block.
ErrorLog(c, order) == [i \in 1..Len(c) |-> BlockValidate(c[order[i]])]

\* validateChain(), lines 210-235.
ValidateChain(p, order) ==
  /\ pc[p] = "idle"
  /\ pc' = [pc EXCEPT ![p] = "pending"]
  /\ call' = [call EXCEPT ![p] = [op |-> "validateChain"]]
  /\ ret' = [ret EXCEPT ![p] =
       [ok |-> TRUE, value |-> ErrorLog(chain, order), error |-> ""]]
  /\ UNCHANGED <<chain, height, nowMs, tampered>>

\* getChainHeight(), lines 46-50: resolves with this.height.
GetChainHeight(p) ==
  /\ pc[p] = "idle"
  /\ pc' = [pc EXCEPT ![p] = "pending"]
  /\ call' = [call EXCEPT ![p] = [op |-> "getChainHeight"]]
  /\ ret' = [ret EXCEPT ![p] = [ok |-> TRUE, value |-> height, error |-> ""]]
  /\ UNCHANGED <<chain, height, nowMs, tampered>>

\* requestMessageOwnershipVerification(address), lines 97-104.
RequestMessageOwnershipVerification(p, address) ==
  /\ pc[p] = "idle"
  /\ pc' = [pc EXCEPT ![p] = "pending"]
  /\ call' = [call EXCEPT ![p] =
       [op |-> "requestMessageOwnershipVerification", address |-> address]]
  /\ ret' = [ret EXCEPT ![p] =
       [ok |-> TRUE, value |-> Challenge(address, nowMs), error |-> ""]]
  /\ UNCHANGED <<chain, height, nowMs, tampered>>

\* array[0] of a filtered array: its first element, or undefined.
FirstOf(found) == IF found = <<>> THEN Null ELSE Head(found)

\* line 150: self.chain.filter((block) => block.hash === hash)[0]
BlockByHash(c, hash) ==
  LET Test(b) == b.hash = hash
  IN  FirstOf(SelectSeq(c, Test))

\* lines 167-173: self.chain.filter((p) => p.height === height)[0], or null
BlockByHeight(c, h) ==
  LET Test(b) == b.height = h
  IN  FirstOf(SelectSeq(c, Test))

\* getBlockByHash(hash), lines 147-157.
GetBlockByHash(p, hash) ==
  /\ pc[p] = "idle"
  /\ pc' = [pc EXCEPT ![p] = "pending"]
  /\ call' = [call EXCEPT ![p] = [op |-> "getBlockByHash", hash |-> hash]]
  /\ ret' = [ret EXCEPT ![p] =
       [ok |-> TRUE, value |-> BlockByHash(chain, hash), error |-> ""]]
  /\ UNCHANGED <<chain, height, nowMs, tampered>>

\* getBlockByHeight(height), lines 164-175.
GetBlockByHeight(p, h) ==
  /\ pc[p] = "idle"
  /\ pc' = [pc EXCEPT ![p] = "pending"]
  /\ call' = [call EXCEPT ![p] = [op |-> "getBlockByHeight", height |-> h]]
  /\ ret' = [ret EXCEPT ![p] =
       [ok |-> TRUE, value |-> BlockByHeight(chain, h), error |-> ""]]
  /\ UNCHANGED <<chain, height, nowMs, tampered>>

\* lines 189-194: each block's callback awaits getBData() and pushes a
\* truthy result onto ownerStarsData, so the array is in the order the
\* callbacks complete; `order` maps the place in that order to the index of
\* the block.
OwnerStarsData(c, order) ==
  LET all == [i \in 1..Len(c) |-> GetBData(c[order[i]])]
      Truthy(d) == d # Null
  IN  SelectSeq(all, Truthy)

\* line 196: ownerStarsData.filter((data) => data.owner === address)
StarsOf(data, address) ==
  LET Owned(d) == "owner" \in DOMAIN d /\ d.owner = address
  IN  SelectSeq(data, Owned)

\* getStarsByWalletAddress(address), lines 183-202.
GetStarsByWalletAddress(p, address, order) ==
  /\ pc[p] = "idle"
  /\ pc' = [pc EXCEPT ![p] = "pending"]
  /\ call' = [call EXCEPT ![p] =
       [op |-> "getStarsByWalletAddress", address |-> address]]
  /\ ret' = [ret EXCEPT ![p] =
       [ok |-> TRUE, value |-> StarsOf(OwnerStarsData(chain, order), address),
        error |-> ""]]
  /\ UNCHANGED <<chain, height, nowMs, tampered>>

\* The promise of the call in flight is delivered to the caller.
Settle(p) ==
  /\ pc[p] = "pending"
  /\ pc' = [pc EXCEPT ![p] = "idle"]
  /\ call' = [call EXCEPT ![p] = Idle]
  /\ ret' = [ret EXCEPT ![p] = NoRet]
  /\ UNCHANGED <<chain, height, nowMs, tampered>>

\* The wall clock advances.
Tick ==
  /\ nowMs + TickMs <= StartMs + MaxTicks * TickMs
  /\ nowMs' = nowMs + TickMs
  /\ UNCHANGED <<chain, height, pc, call, ret, tampered>>

\* Storage corruption: the payload of block i is overwritten in place, its
\* stored hash left as it was.
ForgedData == [owner |-> "mallory", star |-> "stolen"]
TamperBody(i) ==
  /\ Cardinality(tampered) < MaxTamper
  /\ <<"body", i>> \notin tampered
  /\ chain' = [chain EXCEPT ![i].body = Encode(ForgedData)]
  /\ tampered' = tampered \cup {<<"body", i>>}
  /\ UNCHANGED <<height, nowMs, pc, call, ret>>

\* Forged relink: the hash field of block i is overwritten in place.
ForgedHash == <<"forged">>
TamperHash(i) ==
  /\ Cardinality(tampered) < MaxTamper
  /\ <<"hash", i>> \notin tampered
  /\ chain' = [chain EXCEPT ![i].hash = ForgedHash]
  /\ tampered' = tampered \cup {<<"hash", i>>}
  /\ UNCHANGED <<height, nowMs, pc, call, ret>>

Next ==
  \/ \E p \in Procs, a \in Addrs, s \in Addrs, t \in Clock,
        star \in Stars \cup {Circular} :
       /\ t <= nowMs
       /\ SubmitStar(p, a, Challenge(a, t), Sign(s, Challenge(a, t)), star)
  \/ \E p \in Procs, ser \in BOOLEAN : AddBlockCall(p, ser)
  \/ \E p \in Procs : InitializeChain(p)
  \/ \E p \in Procs, order \in Permutations(1..Len(chain)) :
       ValidateChain(p, order)
  \/ \E p \in Procs : Settle(p)
  \/ Tick

Spec == Init /\ [][Next]_vars

\* The ledger with its read operations, at one reading of the clock (no
\* read depends on the time elapsed): either caller issues reads and writes.
NextQuery ==
  \/ \E p \in Procs, a \in Addrs, s \in Addrs, star \in Stars \cup {Circular} :
       SubmitStar(p, a, Challenge(a, nowMs), Sign(s, Challenge(a, nowMs)),
                  star)
  \/ \E p \in Procs, ser \in BOOLEAN : AddBlockCall(p, ser)
  \/ \E p \in Procs : InitializeChain(p)
  \/ \E p \in Procs, order \in Permutations(1..Len(chain)) :
       ValidateChain(p, order)
  \/ \E p \in Procs : Settle(p)
  \/ \E p \in Procs : GetChainHeight(p)
  \/ \E p \in Procs, a \in Addrs : RequestMessageOwnershipVerification(p, a)
  \/ \E p \in Procs, i \in 1..Len(chain) : GetBlockByHash(p, chain[i].hash)
  \/ \E p \in Procs : GetBlockByHash(p, ForgedHash)
  \/ \E p \in Procs, h \in 0..(Len(chain) + 1) : GetBlockByHeight(p, h)
  \/ \E p \in Procs, a \in Addrs, order \in Permutations(1..Len(chain)) :
       GetStarsByWalletAddress(p, a, order)

SpecQuery == Init /\ [][NextQuery]_vars

\* The ledger together with in-place mutation of stored blocks.
NextTamper ==
  \/ Next
  \/ \E i \in 1..Len(chain) : TamperBody(i)
  \/ \E i \in 1..Len(chain) : TamperHash(i)

SpecTamper == Init /\ [][NextTamper]_vars

\* ----------------------------------------------------------------- claims
\* A step in which caller p makes the call `op`.
Calls(p, op) == pc[p] = "idle" /\ pc'[p] = "pending" /\ call'[p].op = op

\* A call in flight that appended a block.
Appended(p) ==
  /\ pc[p] = "pending"
  /\ call[p].op \in {"submitStar", "_addBlock"}
  /\ ret[p].ok

\* The blocks a validateChain result reports as violating: the places of
\* its false entries.
Reported(log) == {i \in DOMAIN log : log[i] = FALSE}

\* C1: in every reachable state the genesis block has no previousBlockHash
\* and every later block's previousBlockHash is the hash stored in the block
\* before it.
C1_Linkage ==
  /\ Len(chain) >= 1
  /\ chain[1].previousBlockHash = Null
  /\ \A i \in 2..Len(chain) : chain[i].previousBlockHash = chain[i - 1].hash

C1_Witness ==
  /\ Len(chain) >= 3
  /\ \E p, q \in Procs :
       /\ Appended(p) /\ call[p].op = "submitStar"
       /\ Appended(q) /\ call[q].op = "_addBlock"

\* C2: the block at index i of the chain (counted from 0) has position i.
C2_Positions == \A i \in 1..Len(chain) : chain[i].height = i - 1

C2_Witness ==
  /\ Len(chain) >= 3
  /\ \E p \in Procs : pc[p] = "pending" /\ call[p].op = "_addBlock" /\ ~ret[p].ok

\* C3: under every interleaving of calls in flight no two blocks claim the
\* same position or the same previousBlockHash, and the block every
\* appending call returned is in the chain at the position it claims.
C3_MutualExclusion ==
  /\ \A i, j \in 1..Len(chain) :
       i # j => /\ chain[i].height # chain[j].height
                /\ chain[i].previousBlockHash # chain[j].previousBlockHash
  /\ \A p \in Procs :
       Appended(p) =>
         /\ ret[p].value.height + 1 \in 1..Len(chain)
         /\ chain[ret[p].value.height + 1] = ret[p].value

C3_Witness ==
  /\ \A p \in Procs : Appended(p)
  /\ \E p, q \in Procs : ret[p].value.height + 1 = ret[q].value.height

\* C4: a submitStar whose message is older than the freshness window fails,
\* whatever the signature, and leaves chain and height as they were.
C4_ExpiredRejected ==
  [][\A p \in Procs :
       (Calls(p, "submitStar") /\ Expired(call'[p].message, nowMs))
         => (~ret'[p].ok /\ chain' = chain /\ height' = height)]_vars

\* C5: a submitStar with a fresh message and a signature that does not
\* verify fails with the signature error, not the generic one, and leaves
\* chain and height as they were.
C5_InvalidSignatureRejected ==
  [][\A p \in Procs :
       (/\ Calls(p, "submitStar")
        /\ ~Expired(call'[p].message, nowMs)
        /\ ~Verify(call'[p].message, call'[p].address, call'[p].signature))
         => (/\ ~ret'[p].ok
             /\ ret'[p].error = ErrVerify
             /\ chain' = chain /\ height' = height)]_vars

\* C6: a submitStar with a fresh message and a signature that verifies
\* succeeds, appends exactly one block, raises the height by exactly 1 and
\* returns the new tail, whose decoded payload is {owner, star} as submitted.
C6_ValidClaimCommitted ==
  [][\A p \in Procs :
       (/\ Calls(p, "submitStar")
        /\ ~Expired(call'[p].message, nowMs)
        /\ Verify(call'[p].message, call'[p].address, call'[p].signature)
        /\ call'[p].star \in Stars)
         => (/\ ret'[p].ok
             /\ Len(chain') = Len(chain) + 1
             /\ SubSeq(chain', 1, Len(chain)) = chain
             /\ height' = height + 1
             /\ ret'[p].value = chain'[Len(chain')]
             /\ GetBData(ret'[p].value) =
                  [owner |-> call'[p].address, star |-> call'[p].star])]_vars

\* C7: validateChain on a chain no block of which was mutated returns an
\* empty list.
C7_UntouchedValidatesEmpty ==
  [][\A p \in Procs :
       (Calls(p, "validateChain") /\ tampered = {})
         => ret'[p].value = <<>>]_vars

\* C8: after payloads were mutated in place (stored hashes untouched), the
\* list validateChain returns identifies exactly the mutated blocks as
\* violating, every one of them.
C8_PayloadTamperReported ==
  [][\A p \in Procs :
       (/\ Calls(p, "validateChain")
        /\ tampered # {}
        /\ \A t \in tampered : t[1] = "body")
         => Reported(ret'[p].value) = {t[2] : t \in tampered}]_vars

\* C9: after the hash field of block i was mutated while block i + 1 was
\* already linked to it, validateChain reports block i + 1 as violating.
C9_LinkageReported ==
  [][\A p \in Procs : \A i \in 1..(Len(chain) - 1) :
       (/\ Calls(p, "validateChain")
        /\ <<"hash", i>> \in tampered
        /\ chain[i + 1].previousBlockHash # chain[i].hash
        /\ <<"hash", i + 1>> \notin tampered
        /\ <<"body", i + 1>> \notin tampered)
         => (i + 1) \in Reported(ret'[p].value)]_vars

\* C10: the stored hash of every block of the chain is the digest of its
\* other stored fields (position, time, previousBlockHash, payload).
C10_HashOfFields ==
  \A i \in 1..Len(chain) :
    chain[i].hash = SHA256JSON([chain[i] EXCEPT !.hash = Null])

C10_Witness ==
  /\ Len(chain) >= 3
  /\ chain[2].time # chain[3].time
  /\ \E p \in Procs : Appended(p) /\ call[p].op = "submitStar"

\* C11: an _addBlock call that fails (hashing throws) rejects with
\* 'Error adding block!' and leaves the ledger as it was: no block appended
\* and the height unchanged.
C11_FailedAppendLeavesLedger ==
  [][\A p \in Procs :
       (Calls(p, "_addBlock") /\ ~ret'[p].ok)
         => (/\ ret'[p].error = ErrAddBlock
             /\ chain' = chain
             /\ height' = height)]_vars

\* C12: construction leaves exactly one block, the genesis block (payload
\* {data: 'Genesis Block'}, no previousBlockHash), the height is 0 and the
\* lookup by position 0 gives that block; the chain is never empty afterwards
\* and position 0 keeps giving the genesis block.
GenesisAtZero ==
  LET b == BlockByHeight(chain, 0)
  IN  /\ Len(chain) >= 1
      /\ b # Null
      /\ b = chain[1]
      /\ Decode(b.body) = GenesisData
      /\ b.previousBlockHash = Null

C12_GenesisAfterConstruction ==
  /\ Len(chain) = 1
  /\ height = 0
  /\ GenesisAtZero
  /\ [][GenesisAtZero']_vars

C12_Witness ==
  /\ Len(chain) >= 3
  /\ BlockByHeight(chain, 0) = chain[1]
  /\ \E p \in Procs : Appended(p)
  /\ \E p \in Procs : pc[p] = "pending" /\ call[p].op = "initializeChain"

\* C13: initializeChain on a ledger that has its genesis block changes
\* nothing, and no block after the first ever carries the genesis payload.
C13_InitializeIdempotent ==
  [][/\ \A p \in Procs :
          Calls(p, "initializeChain") => (chain' = chain /\ height' = height)
     /\ \A i \in 2..Len(chain') : Decode(chain'[i].body) # GenesisData]_vars

C13_Witness ==
  /\ Len(chain) >= 2
  /\ \E p \in Procs :
       /\ pc[p] = "pending" /\ call[p].op = "initializeChain"
       /\ ret[p].ok

\* The decoded payloads of the non-genesis blocks of c that name `address`
\* as owner, in chain order.
RecordsOf(c, address) ==
  LET payload == [i \in 1..Len(c) |-> Decode(c[i].body)]
      Owned(d) == "owner" \in DOMAIN d /\ d.owner = address
  IN  SelectSeq(payload, Owned)

\* C14: getStarsByWalletAddress(O) resolves to exactly the decoded payloads
\* of the blocks whose owner is O, in chain order, whatever the order in
\* which the per-block decodes complete; the genesis block is left out and
\* an owner without blocks gets the empty list, not an error.
C14_StarsInChainOrder ==
  [][\A p \in Procs :
       Calls(p, "getStarsByWalletAddress")
         => (/\ ret'[p].ok
             /\ ret'[p].value = RecordsOf(chain, call'[p].address))]_vars

\* C15: getBlockByHash resolves to the first block of the chain with that
\* hash, or to null when there is none; getBlockByHeight(h) resolves to the
\* block at position h when 0 <= h <= getChainHeight(), and to null for an h
\* beyond the height.
C15_Lookups ==
  [][\A p \in Procs :
       /\ Calls(p, "getBlockByHash")
            => LET hit == {i \in 1..Len(chain) : chain[i].hash = call'[p].hash}
               IN  IF hit = {}
                   THEN ret'[p].value = Null
                   ELSE \E i \in hit :
                          /\ \A j \in hit : i <= j
                          /\ ret'[p].value = chain[i]
       /\ Calls(p, "getBlockByHeight")
            => IF call'[p].height \in 0..height
               THEN /\ ret'[p].value # Null
                    /\ ret'[p].value.height = call'[p].height
               ELSE ret'[p].value = Null]_vars

\* C16: in every reachable state the height is the number of blocks less
\* one, after a failed append too.
C16_HeightIsLengthMinusOne == height = Len(chain) - 1

\* The operations that only read the ledger.
ReadOps ==
  {"getChainHeight", "requestMessageOwnershipVerification", "getBlockByHash",
   "getBlockByHeight", "getStarsByWalletAddress", "validateChain"}

\* C17: the chain only grows: on every step the chain before is a prefix of
\* the chain after (no stored block changed, removed or moved), and a step
\* that is a read leaves chain and height as they were.
C17_AppendOnly ==
  [][/\ Len(chain') >= Len(chain)
     /\ SubSeq(chain', 1, Len(chain)) = chain
     /\ \A p \in Procs : \A op \in ReadOps :
          Calls(p, op) => (chain' = chain /\ height' = height)]_vars

C17_Witness ==
  /\ Len(chain) >= 3
  /\ \E p, q \in Procs :
       /\ Appended(p)
       /\ pc[q] = "pending"
       /\ call[q].op = "getStarsByWalletAddress"
       /\ Len(ret[q].value) >= 2

\* Every field the append sets is set.
Sealed(b) ==
  /\ b.height \in Nat
  /\ b.time > 0
  /\ b.hash # Null
  /\ b.height > 0 => b.previousBlockHash # Null

\* C18: whenever a reader asks, every block of the chain is sealed (position,
\* time, previousBlockHash and hash set), and the height getChainHeight
\* resolves to is a position at which the chain holds a sealed block.
C18_ReadersSeeSealedBlocks ==
  [][\A p \in Procs :
       /\ \A op \in ReadOps :
            Calls(p, op) => \A i \in 1..Len(chain) : Sealed(chain[i])
       /\ Calls(p, "getChainHeight")
            => /\ BlockByHeight(chain, ret'[p].value) # Null
               /\ Sealed(BlockByHeight(chain, ret'[p].value))]_vars

\* C19: a block naming an owner is appended only by a submitStar for that
\* owner whose message is within the freshness window and whose signature
\* verifies; a submitStar that is rejected appends nothing.
C19_CommittedOnlyIfVerifiedFresh ==
  [][/\ (/\ Len(chain') > Len(chain)
         /\ "owner" \in DOMAIN Decode(chain'[Len(chain')].body))
          => \E p \in Procs :
               /\ Calls(p, "submitStar")
               /\ call'[p].address = Decode(chain'[Len(chain')].body).owner
               /\ ~Expired(call'[p].message, nowMs)
               /\ Verify(call'[p].message, call'[p].address,
                         call'[p].signature)
     /\ \A p \in Procs :
          (Calls(p, "submitStar") /\ ~ret'[p].ok) => chain' = chain]_vars

\* C20: no record of challenges is kept: every submitStar whose signature
\* verifies, whether or not the same address, message and signature were
\* submitted before and whether or not the message was ever issued, appends
\* one block and raises the height by one.
C20_ReplayAppendsAgain ==
  [][\A p \in Procs :
       (/\ Calls(p, "submitStar")
        /\ Verify(call'[p].message, call'[p].address, call'[p].signature)
        /\ call'[p].star \in Stars)
         => (/\ ret'[p].ok
             /\ chain' = Append(chain, ret'[p].value)
             /\ height' = height + 1)]_vars

====
